---- MODULE Spec2Model ----
(***************************************************************************)
(* Vibe Ideas API (src/main.py, src/schemas.py): the idea, comment and     *)
(* vote collections of the document store and the request handlers that    *)
(* write them.  Every call of a handler on the store (find_one,            *)
(* create_document, update_one) is one atomic step; requests served by     *)
(* different server processes interleave between these steps.  The store   *)
(* has no constraint beyond what the handlers check, and any call on it    *)
(* may fail because the store is unreachable.                              *)
(***************************************************************************)
EXTENDS Integers, Sequences, FiniteSets, TLC

\* ---------------------------------------------------------------- bounds
MaxIdeas == 2          \* ideas submitted in a run
NReq == 3              \* vote / comment requests in a run

Procs == 1..NReq

\* ------------------------------------------------------- identifiers
\* An id string of a request is <<oid, spelling>>: the 24 hex digits of
\* ObjectId oid written in lower or upper case, or a string that is not
\* 24 hex digits ("bad").  The store gives idea number n the ObjectId n;
\* MissingOid is a well-formed ObjectId no idea ever gets.
MissingOid == 0

\* bson.ObjectId(s) raises InvalidId unless s is 24 hex digits; it accepts
\* both cases (bytes.fromhex) and yields the same ObjectId for both.
InvalidId(s) == s[2] = "bad"
ObjectId(s) == s[1]
\* str(ObjectId): always lower case
str(o) == <<o, "lower">>

\* ------------------------------------------------------------ voter ip
Hosts == {"ip1", "ip2"}
\* x-forwarded-for header: absent (<<>>) or a comma-separated list of hosts
XffValues == {<<>>} \cup {<<h>> : h \in Hosts} \cup {<<h, g>> : h \in Hosts, g \in Hosts}
\* request.client: the peer's host (the server sets it for every TCP
\* connection; "None" is what ClientIp reads when it is missing)
ClientValues == Hosts

\* line 133: ip = (xff.split(",")[0].strip() if xff else request.client.host)
\*                if request.client else (... if xff else "unknown")
ClientIp(xff, client) ==
    IF client # "None"
    THEN (IF xff # <<>> THEN xff[1] ELSE client)
    ELSE (IF xff # <<>> THEN xff[1] ELSE "unknown")

VARIABLES
    db,          \* TRUE when the database handle is not None
    idea,        \* collection "idea": sequence indexed by ObjectId
    comment,     \* collection "comment": records in insertion order
    vote,        \* collection "vote": records in insertion order
    pc,          \* position of each request in its handler
    handler,     \* "vote_idea", "add_comment" or "seed" ("none" before start)
    idea_id,     \* the id string of the request (idea_id / payload.post_id)
    ip,          \* the voter ip of a vote request
    status,      \* the response of a finished request: "ok", "already_voted",
                 \* "created", "403", "404", or a 500 with its cause
    before,      \* the requests that had finished when this one started
    count        \* the count field of the response of a seed request

vars == <<db, idea, comment, vote, pc, handler, idea_id, ip, status, before, count>>
store == <<db, idea, comment, vote>>

NoId == <<0, "none">>

\* schemas.Idea: votes_count and comments_count default to 0; the title is
\* the payload's ("user" for every submitted idea)
Idea == [title |-> "user", votes_count |-> 0, comments_count |-> 0]
\* schemas.Vote(post_id, ip)
Vote(post, addr) == [post_id |-> post, ip |-> addr]
\* schemas.Comment(post_id, author, text): author and text are not read again
Comment(post) == [post_id |-> post]

Init ==
    /\ db \in BOOLEAN
    /\ idea = <<>>
    /\ comment = <<>>
    /\ vote = <<>>
    /\ pc = [p \in Procs |-> "idle"]
    /\ handler = [p \in Procs |-> "none"]
    /\ idea_id = [p \in Procs |-> NoId]
    /\ ip = [p \in Procs |-> "none"]
    /\ status = [p \in Procs |-> "none"]
    /\ before = [p \in Procs |-> {}]
    /\ count = [p \in Procs |-> 0]

\* ------------------------------------------------------ store operations
\* create_document(collection, doc): insert_one, appends in natural order
create_document(coll, doc) == Append(coll, doc)

\* db["idea"].find_one({"_id": oid})
FindIdea(o) == o \in DOMAIN idea

\* db["vote"].find_one({"ip": addr}): the first match in natural order,
\* 0 when there is none
FindVoteByIp(addr) ==
    IF \E i \in DOMAIN vote : vote[i].ip = addr
    THEN CHOOSE i \in DOMAIN vote :
            /\ vote[i].ip = addr
            /\ \A j \in DOMAIN vote : vote[j].ip = addr => i <= j
    ELSE 0

\* a write of the counter that is not an increment: {"$set": {"votes_count": 1}}
IncVotes_set(o) ==
    IF o \in DOMAIN idea
    THEN [idea EXCEPT ![o].votes_count = 1]
    ELSE idea

\* update_many({}, ...) in place of update_one({"_id": o}, ...)
IncVotes_all(o) ==
    [n \in DOMAIN idea |-> [idea[n] EXCEPT !.votes_count = @ + 1]]

\* update_one({"_id": o}, {"$inc": {field: 1}}): atomic, no-op without match
IncVotes(o) ==
    IF o \in DOMAIN idea
    THEN [idea EXCEPT ![o].votes_count = @ + 1]
    ELSE idea
\* the filter {"_id": payload.post_id} without ObjectId(): a string matches
\* no _id and the update is a no-op
IncComments_nomatch(o) == idea

\* the increment of the other counter: {"$inc": {"votes_count": 1}}
IncComments_votes(o) ==
    IF o \in DOMAIN idea
    THEN [idea EXCEPT ![o].votes_count = @ + 1]
    ELSE idea

IncComments(o) ==
    IF o \in DOMAIN idea
    THEN [idea EXCEPT ![o].comments_count = @ + 1]
    ELSE idea

\* ------------------------------------------------------------- requests
Done == {p \in Procs : pc[p] = "done"}

Finish(p, s) ==
    /\ pc' = [pc EXCEPT ![p] = "done"]
    /\ status' = [status EXCEPT ![p] = s]

Goto(p, l) ==
    /\ pc' = [pc EXCEPT ![p] = l]
    /\ UNCHANGED status

\* requests are numbered in the order they arrive
Arrives(p) ==
    /\ pc[p] = "idle"
    /\ \A q \in Procs : q < p => pc[q] # "idle"

\* The id strings a client sends: an id some response has shown it (in either
\* case), a well-formed id of no idea, or a malformed string.
RequestIds ==
    {<<o, c>> : o \in DOMAIN idea, c \in {"lower", "upper"}}
        \cup {str(MissingOid), <<0, "bad">>}
\* add_comment never compares payload.post_id as a string: its requests are
\* enumerated in the canonical spelling only
CommentIds == {r \in RequestIds : r[2] # "upper"}

\* ---- POST /api/ideas (create_idea, lines 65-72) ----
\* The insert of line 70 is the handler's only write; the read-back of line
\* 71 only builds the response.  Without a database the handler raises 500
\* and changes nothing.
create_idea ==
    /\ db
    /\ Len(idea) < MaxIdeas
    /\ idea' = create_document(idea, Idea)
    /\ UNCHANGED <<db, comment, vote, pc, handler, idea_id, ip, status, before, count>>

\* ---- POST /api/ideas/{idea_id}/vote (vote_idea, lines 126-151) ----
\* lines 128-133: db check, voter ip
VoteStart(p) ==
    /\ Arrives(p)
    /\ \E s \in RequestIds, xff \in XffValues, client \in ClientValues :
        /\ handler' = [handler EXCEPT ![p] = "vote_idea"]
        /\ idea_id' = [idea_id EXCEPT ![p] = s]
        /\ ip' = [ip EXCEPT ![p] = ClientIp(xff, client)]
    /\ before' = [before EXCEPT ![p] = Done]
    /\ IF db THEN Goto(p, "find_idea") ELSE Finish(p, "500_no_db")
    /\ UNCHANGED <<store, count>>

\* the lookup without the 404 of lines 137-138
VoteFindIdea_nocheck(p) ==
    /\ handler[p] = "vote_idea" /\ pc[p] = "find_idea"
    /\ IF InvalidId(idea_id[p]) THEN Finish(p, "500_invalid_id")
       ELSE Goto(p, "find_vote")
    /\ UNCHANGED <<store, handler, idea_id, ip, before, count>>

\* lines 136-138: ensure idea exists
VoteFindIdea(p) ==
    /\ handler[p] = "vote_idea" /\ pc[p] = "find_idea"
    /\ IF InvalidId(idea_id[p]) THEN Finish(p, "500_invalid_id")
       ELSE IF ~FindIdea(ObjectId(idea_id[p])) THEN Finish(p, "404")
       ELSE Goto(p, "find_vote")
    /\ UNCHANGED <<store, handler, idea_id, ip, before, count>>

\* the repeat vote answered with ok instead of already_voted
VoteFindVote_ok(p) ==
    /\ handler[p] = "vote_idea" /\ pc[p] = "find_vote"
    /\ LET existing_vote == FindVoteByIp(ip[p]) IN
        IF existing_vote # 0
        THEN IF vote[existing_vote].post_id = idea_id[p]
             THEN Finish(p, "ok")
             ELSE Finish(p, "403")
        ELSE Goto(p, "insert_vote")
    /\ UNCHANGED <<store, handler, idea_id, ip, before, count>>

\* lines 141-146: single IP can vote for one single post only overall
VoteFindVote(p) ==
    /\ handler[p] = "vote_idea" /\ pc[p] = "find_vote"
    /\ LET existing_vote == FindVoteByIp(ip[p]) IN
        IF existing_vote # 0
        THEN IF vote[existing_vote].post_id = idea_id[p]
             THEN Finish(p, "already_voted")
             ELSE Finish(p, "403")
        ELSE Goto(p, "insert_vote")
    /\ UNCHANGED <<store, handler, idea_id, ip, before, count>>

\* an upsert keyed by ip in place of the insert:
\* update_one({"ip": ip}, {"$set": {"post_id": idea_id}}, upsert=True)
VoteInsert_upsert(p) ==
    /\ handler[p] = "vote_idea" /\ pc[p] = "insert_vote"
    /\ vote' = IF FindVoteByIp(ip[p]) # 0
               THEN [vote EXCEPT ![FindVoteByIp(ip[p])].post_id = idea_id[p]]
               ELSE create_document(vote, Vote(idea_id[p], ip[p]))
    /\ Goto(p, "inc_votes")
    /\ UNCHANGED <<db, idea, comment, handler, idea_id, ip, before, count>>

\* lines 148-149: create_document("vote", vote)
VoteInsert(p) ==
    /\ handler[p] = "vote_idea" /\ pc[p] = "insert_vote"
    /\ vote' = create_document(vote, Vote(idea_id[p], ip[p]))
    /\ Goto(p, "inc_votes")
    /\ UNCHANGED <<db, idea, comment, handler, idea_id, ip, before, count>>

\* lines 150-151: $inc votes_count, return ok
VoteInc(p) ==
    /\ handler[p] = "vote_idea" /\ pc[p] = "inc_votes"
    /\ idea' = IncVotes(ObjectId(idea_id[p]))
    /\ Finish(p, "ok")
    /\ UNCHANGED <<db, comment, vote, handler, idea_id, ip, before, count>>

\* ---- POST /api/comments (add_comment, lines 111-124) ----
CommentStart(p) ==
    /\ Arrives(p)
    /\ \E s \in CommentIds :
        /\ handler' = [handler EXCEPT ![p] = "add_comment"]
        /\ idea_id' = [idea_id EXCEPT ![p] = s]
    /\ before' = [before EXCEPT ![p] = Done]
    /\ IF db THEN Goto(p, "find_idea") ELSE Finish(p, "500_no_db")
    /\ UNCHANGED <<store, ip, count>>

\* lines 116-117: validate idea exists
CommentFindIdea(p) ==
    /\ handler[p] = "add_comment" /\ pc[p] = "find_idea"
    /\ IF InvalidId(idea_id[p]) THEN Finish(p, "500_invalid_id")
       ELSE IF ~FindIdea(ObjectId(idea_id[p])) THEN Finish(p, "404")
       ELSE Goto(p, "insert_comment")
    /\ UNCHANGED <<store, handler, idea_id, ip, before, count>>

\* the Comment is built (line 119) but never inserted
CommentInsert_lost(p) ==
    /\ handler[p] = "add_comment" /\ pc[p] = "insert_comment"
    /\ Goto(p, "inc_comments")
    /\ UNCHANGED <<store, handler, idea_id, ip, before, count>>

\* lines 119-120: create_document("comment", comment)
CommentInsert(p) ==
    /\ handler[p] = "add_comment" /\ pc[p] = "insert_comment"
    /\ comment' = create_document(comment, Comment(idea_id[p]))
    /\ Goto(p, "inc_comments")
    /\ UNCHANGED <<db, idea, vote, handler, idea_id, ip, before, count>>

\* line 122: $inc comments_count
CommentInc(p) ==
    /\ handler[p] = "add_comment" /\ pc[p] = "inc_comments"
    /\ idea' = IncComments(ObjectId(idea_id[p]))
    /\ Goto(p, "read_comment")
    /\ UNCHANGED <<db, comment, vote, handler, idea_id, ip, before, count>>

\* lines 123-124: read the comment back and return it
CommentReturn(p) ==
    /\ handler[p] = "add_comment" /\ pc[p] = "read_comment"
    /\ Finish(p, "created")
    /\ UNCHANGED <<store, handler, idea_id, ip, before, count>>

\* ---- POST /api/seed (seed, lines 153-181) ----
\* lines 161-177: the titles of the samples, in the order of the list
samples == <<"AI-Powered Meeting Notetaker for Open-Source PRs",
             "Realtime Design Critique Bot",
             "CLI to Full SaaS">>
\* line 179: idea = Idea(**s)
Sample(k) == [Idea EXCEPT !.title = samples[k]]
\* the position of a seed request before it inserts sample k
SeedPc == <<"insert_sample_1", "insert_sample_2", "insert_sample_3">>

\* lines 155-157: db check
SeedStart(p) ==
    /\ Arrives(p)
    /\ handler' = [handler EXCEPT ![p] = "seed"]
    /\ before' = [before EXCEPT ![p] = Done]
    /\ IF db THEN Goto(p, "count_ideas") ELSE Finish(p, "500_no_db")
    /\ UNCHANGED <<store, idea_id, ip, count>>

\* lines 158-160: count = count_documents({}); skipped when count > 0
SeedCount(p) ==
    /\ handler[p] = "seed" /\ pc[p] = "count_ideas"
    /\ IF Len(idea) > 0
       THEN /\ Finish(p, "skipped")
            /\ count' = [count EXCEPT ![p] = Len(idea)]
       ELSE /\ Goto(p, SeedPc[1])
            /\ UNCHANGED count
    /\ UNCHANGED <<store, handler, idea_id, ip, before>>

\* lines 178-181: one create_document per sample, then seeded with len(samples)
SeedInsert(p) ==
    /\ handler[p] = "seed"
    /\ \E k \in DOMAIN samples :
        /\ pc[p] = SeedPc[k]
        /\ idea' = create_document(idea, Sample(k))
        /\ IF k = Len(samples)
           THEN /\ Finish(p, "seeded")
                /\ count' = [count EXCEPT ![p] = Len(samples)]
           ELSE /\ Goto(p, SeedPc[k + 1])
                /\ UNCHANGED count
    /\ UNCHANGED <<db, comment, vote, handler, idea_id, ip, before>>

\* ---- the backing store is unreachable at a call: the driver raises,
\* ---- the handler does not catch, the request ends with a 500
DbSteps == {"find_idea", "find_vote", "insert_vote", "inc_votes",
            "insert_comment", "inc_comments", "read_comment",
            "count_ideas", "insert_sample_1", "insert_sample_2",
            "insert_sample_3"}

StorageUnavailable(p) ==
    /\ pc[p] \in DbSteps
    /\ Finish(p, "500_storage")
    /\ UNCHANGED <<store, handler, idea_id, ip, before, count>>

Next ==
    \/ create_idea
    \/ \E p \in Procs : VoteStart(p)
    \/ \E p \in Procs : VoteFindIdea(p)
    \/ \E p \in Procs : VoteFindVote(p)
    \/ \E p \in Procs : VoteInsert(p)
    \/ \E p \in Procs : VoteInc(p)
    \/ \E p \in Procs : CommentStart(p)
    \/ \E p \in Procs : CommentFindIdea(p)
    \/ \E p \in Procs : CommentInsert(p)
    \/ \E p \in Procs : CommentInc(p)
    \/ \E p \in Procs : CommentReturn(p)
    \/ \E p \in Procs : StorageUnavailable(p)

Spec == Init /\ [][Next]_vars

\* a step of a vote or comment request that has arrived
Step(p) ==
    \/ VoteFindIdea(p)
    \/ VoteFindVote(p)
    \/ VoteInsert(p)
    \/ VoteInc(p)
    \/ CommentFindIdea(p)
    \/ CommentInsert(p)
    \/ CommentInc(p)
    \/ CommentReturn(p)

\* the store is reachable at every call, and the server runs every handler
\* it has entered to its return
NextLive ==
    \/ create_idea
    \/ \E p \in Procs : VoteStart(p)
    \/ \E p \in Procs : CommentStart(p)
    \/ \E p \in Procs : Step(p)

SpecLive == Init /\ [][NextLive]_vars /\ \A p \in Procs : WF_vars(Step(p))

\* idea submissions and seed requests alone
NextSeed ==
    \/ create_idea
    \/ \E p \in Procs : SeedStart(p)
    \/ \E p \in Procs : SeedCount(p)
    \/ \E p \in Procs : SeedInsert(p)
    \/ \E p \in Procs : StorageUnavailable(p)

SpecSeed == Init /\ [][NextSeed]_vars

\* ===================================================================
\* Properties
\* ===================================================================
Ips == Hosts \cup {"unknown"}
VoteReqs == {p \in Procs : handler[p] = "vote_idea"}
CommentReqs == {p \in Procs : handler[p] = "add_comment"}

\* the idea a request names, when its id string is well formed
Names(p, o) == ~InvalidId(idea_id[p]) /\ ObjectId(idea_id[p]) = o

\* the records of a collection that reference idea o
VotesFor(o) ==
    {i \in DOMAIN vote : ~InvalidId(vote[i].post_id) /\ ObjectId(vote[i].post_id) = o}
CommentsFor(o) ==
    {i \in DOMAIN comment :
        ~InvalidId(comment[i].post_id) /\ ObjectId(comment[i].post_id) = o}
VotesOfIp(a) == {i \in DOMAIN vote : vote[i].ip = a}

\* q had finished before p arrived / p and q overlapped
Concurrent(p, q) == p # q /\ q \notin before[p] /\ p \notin before[q]

\* C1: in every reachable state the vote collection holds at most one Vote
\* record per ip value.
C1_OneVotePerIp ==
    \A a \in Ips : Cardinality(VotesOfIp(a)) <= 1

\* C2: in every reachable state, for every idea, votes_count equals the
\* number of Vote records whose post_id is the idea's id.
C2_VotesCountExact ==
    \A o \in DOMAIN idea : idea[o].votes_count = Cardinality(VotesFor(o))

\* C3: in every reachable state, for every idea, comments_count equals the
\* number of Comment records whose post_id is the idea's id.
C3_CommentsCountExact ==
    \A o \in DOMAIN idea : idea[o].comments_count = Cardinality(CommentsFor(o))

\* the vote requests for idea o that returned ok
OkVotes(o) == {p \in VoteReqs : Names(p, o) /\ pc[p] = "done" /\ status[p] = "ok"}
\* no other vote request carries the ip of p
OnlyVoterOfIp(p) == \A q \in VoteReqs : q # p => ip[q] # ip[p]
\* p ran to completion: it finished and no call of it met an unreachable store
Completed(p) ==
    pc[p] = "done" /\ status[p] \notin {"500_storage", "500_no_db"}

\* C4: vote requests from distinct ips that never voted, for the same
\* existing idea, however they interleave: each one that runs to completion
\* returns ok, and the idea's votes_count is exactly the number of requests
\* that returned ok for it (no increment is lost).
C4_NoLostIncrement ==
    \A o \in DOMAIN idea :
        /\ idea[o].votes_count = Cardinality(OkVotes(o))
        /\ \A p \in VoteReqs :
            (Names(p, o) /\ OnlyVoterOfIp(p) /\ Completed(p)) => status[p] = "ok"

\* two requests from different ips for one idea overlapped, both returned ok
\* and the counter shows both
C4_Witness ==
    \E o \in DOMAIN idea : \E p, q \in OkVotes(o) :
        /\ Concurrent(p, q)
        /\ ip[p] # ip[q]
        /\ OnlyVoterOfIp(p) /\ OnlyVoterOfIp(q)
        /\ idea[o].votes_count = 2

\* C5: no ip receives a success result (ok or already_voted) for two
\* different ideas.
C5_OneIdeaPerIp ==
    \A p, q \in VoteReqs :
        (/\ pc[p] = "done" /\ pc[q] = "done"
         /\ status[p] \in {"ok", "already_voted"}
         /\ status[q] \in {"ok", "already_voted"}
         /\ ip[p] = ip[q])
        => ObjectId(idea_id[p]) = ObjectId(idea_id[q])

\* the step is one of request p
StepOf(p) == pc'[p] # pc[p]
\* request p ends in this step, and not because the store was unreachable
Returns(p) == pc'[p] = "done" /\ status'[p] # "500_storage"

\* a vote request of the same ip for the same idea returned ok before p arrived
VotedSameBefore(p) ==
    /\ ~InvalidId(idea_id[p])
    /\ \E q \in before[p] \cap VoteReqs :
        /\ status[q] = "ok"
        /\ ip[q] = ip[p]
        /\ ObjectId(idea_id[q]) = ObjectId(idea_id[p])

\* C6: a vote for idea A from an ip whose completed earlier vote was for the
\* same idea A returns already_voted, creates no Vote record and leaves the
\* votes_count unchanged.
C6_RepeatVoteIdempotent ==
    [][\A p \in VoteReqs :
        (VotedSameBefore(p) /\ StepOf(p)) =>
            /\ vote' = vote
            /\ idea' = idea
            /\ (Returns(p) => status'[p] = "already_voted")]_vars

\* a vote request of the same ip for another idea returned ok before p
\* arrived, and the idea p names exists
VotedOtherBefore(p) ==
    /\ ~InvalidId(idea_id[p])
    /\ ObjectId(idea_id[p]) \in DOMAIN idea
    /\ \E q \in before[p] \cap VoteReqs :
        /\ status[q] = "ok"
        /\ ip[q] = ip[p]
        /\ ObjectId(idea_id[q]) # ObjectId(idea_id[p])

\* C7: a vote for idea B from an ip that already has a recorded vote for a
\* different idea A is rejected with 403, creates no Vote record and changes
\* no votes_count.
C7_OtherIdeaForbidden ==
    [][\A p \in VoteReqs :
        (VotedOtherBefore(p) /\ StepOf(p)) =>
            /\ vote' = vote
            /\ idea' = idea
            /\ (Returns(p) => status'[p] = "403")]_vars

\* the id string of p references no existing idea
NoSuchIdea(p) ==
    InvalidId(idea_id[p]) \/ ObjectId(idea_id[p]) \notin DOMAIN idea

\* C8: a vote request whose idea id references no existing idea fails with
\* 404 whatever its ip, and leaves the three collections unchanged.
C8_VoteMissingIdea404 ==
    [][\A p \in VoteReqs :
        (NoSuchIdea(p) /\ StepOf(p)) =>
            /\ <<idea, vote, comment>>' = <<idea, vote, comment>>
            /\ (Returns(p) => status'[p] = "404")]_vars

\* C9: a comment submission whose post_id references no existing idea
\* returns 404, creates no Comment record and changes no comments_count.
C9_CommentMissingIdea404 ==
    [][\A p \in CommentReqs :
        (NoSuchIdea(p) /\ StepOf(p)) =>
            /\ comment' = comment
            /\ idea' = idea
            /\ (Returns(p) => status'[p] = "404")]_vars

\* request p has inserted its record / has applied its increment
Inserted(p) == pc[p] \in {"inc_votes", "inc_comments", "read_comment"}
Incremented(p) == pc[p] = "read_comment"

\* C10: a vote or comment request that ends in a storage error leaves no
\* partial write: its record and its increment are both applied or neither.
C10_NoPartialWrite ==
    [][\A p \in Procs :
        (pc'[p] = "done" /\ status'[p] = "500_storage" /\ StepOf(p)) =>
            (Inserted(p) <=> Incremented(p))]_vars

\* ---------------------------------------------------------------- seed
SeedReqs == {p \in Procs : handler[p] = "seed"}
\* the idea records that carry the title of sample k
CopiesOf(k) == {i \in DOMAIN idea : idea[i].title = samples[k]}

\* C11: the samples are inserted only into an empty collection: each sample
\* is in the collection at most once, and a seed request that observes a
\* non-empty collection returns skipped with the current count and inserts
\* nothing.
C11_SeedOnlyIfEmpty ==
    /\ \A k \in DOMAIN samples : Cardinality(CopiesOf(k)) <= 1
    /\ \A p \in SeedReqs :
        (pc[p] = "done" /\ status[p] = "skipped") =>
            /\ count[p] > 0
            /\ count[p] <= Len(idea)

\* ------------------------------------------------- records and counters
\* C12: Vote records are never updated or deleted: a record of the vote
\* collection is the same record in every later state.
C12_VotesImmutable ==
    [][\A i \in DOMAIN vote : i \in DOMAIN vote' /\ vote'[i] = vote[i]]_vars

\* the record of a vote that returned ok is still there, unchanged, after a
\* later vote request ran from arrival to its response
C12_Witness ==
    \E p, q \in VoteReqs :
        /\ p \in before[q] /\ pc[q] = "done"
        /\ status[p] = "ok" /\ status[q] = "ok"
        /\ Len(vote) >= 2
        /\ vote[1] = Vote(idea_id[p], ip[p])

\* C13: the counters of an idea are 0 when it is submitted, never negative
\* and never decrease; votes_count changes only in a step of a vote request
\* and comments_count only in a step of a comment request.
C13_CountersMonotone ==
    [][/\ \A o \in DOMAIN idea :
            /\ o \in DOMAIN idea'
            /\ idea'[o].votes_count >= idea[o].votes_count
            /\ idea'[o].comments_count >= idea[o].comments_count
            /\ idea'[o].votes_count # idea[o].votes_count
                => \E p \in VoteReqs : StepOf(p)
            /\ idea'[o].comments_count # idea[o].comments_count
                => \E p \in CommentReqs : StepOf(p)
       /\ \A o \in DOMAIN idea' \ DOMAIN idea :
            idea'[o].votes_count = 0 /\ idea'[o].comments_count = 0
       /\ \A o \in DOMAIN idea' :
            idea'[o].votes_count >= 0 /\ idea'[o].comments_count >= 0]_vars

\* an idea has been voted for and commented on, another is as submitted
C13_Witness ==
    \E o, n \in DOMAIN idea :
        /\ idea[o].votes_count >= 1 /\ idea[o].comments_count >= 1
        /\ idea[n].votes_count = 0 /\ idea[n].comments_count = 0

\* C14: every Vote record and every Comment record has a post_id that
\* references an idea of the idea collection, in every reachable state.
C14_PostIdReferencesIdea ==
    /\ \A i \in DOMAIN vote :
        ~InvalidId(vote[i].post_id) /\ FindIdea(ObjectId(vote[i].post_id))
    /\ \A i \in DOMAIN comment :
        ~InvalidId(comment[i].post_id) /\ FindIdea(ObjectId(comment[i].post_id))

\* there are a Vote and a Comment record, and a request for an id of no idea
\* got its 404
C14_Witness ==
    /\ Len(vote) >= 1
    /\ Len(comment) >= 1
    /\ \E p \in Procs : pc[p] = "done" /\ status[p] = "404"

\* C15: the counters lag but never lead: votes_count is at most the number
\* of Vote records of the idea and comments_count at most the number of its
\* Comment records, in every reachable state.
C15_CountersNeverLead ==
    \A o \in DOMAIN idea :
        /\ idea[o].votes_count <= Cardinality(VotesFor(o))
        /\ idea[o].comments_count <= Cardinality(CommentsFor(o))

\* both counters of an idea lag: a vote and a comment request have inserted
\* their records and not yet incremented
C15_Witness ==
    \E o \in DOMAIN idea :
        /\ idea[o].votes_count < Cardinality(VotesFor(o))
        /\ idea[o].comments_count < Cardinality(CommentsFor(o))
        /\ \E p \in VoteReqs : pc[p] = "inc_votes" /\ Names(p, o)
        /\ \E p \in CommentReqs : pc[p] = "inc_comments" /\ Names(p, o)

\* no request is between its arrival and its response
Quiescent == \A p \in Procs : pc[p] \in {"idle", "done"}
\* every counter equals the number of records of its idea
Consistent ==
    \A o \in DOMAIN idea :
        /\ idea[o].votes_count = Cardinality(VotesFor(o))
        /\ idea[o].comments_count = Cardinality(CommentsFor(o))

\* C16: when every request that arrived runs to its response (no crash), the
\* counters equal the record counts in every state where no request is in
\* flight, and such a state is eventually reached.
C16_QuiescentConsistency ==
    /\ [](Quiescent => Consistent)
    /\ (~Quiescent) ~> (Quiescent /\ Consistent)

\* every request has run to its response, votes and comments were recorded
C16_Witness ==
    /\ \A p \in Procs : pc[p] = "done"
    /\ Len(vote) >= 2
    /\ Len(comment) >= 1
    /\ Consistent

\* ------------------------------------------------------ frame and effect
\* C17: a step of a vote request for idea A leaves unchanged the votes_count
\* of every other idea, every comments_count and the comment collection; a
\* step of a comment request for idea A leaves unchanged every votes_count,
\* the comments_count of every other idea and the vote collection.
C17_Frame ==
    [][\A p \in Procs : StepOf(p) =>
        /\ handler[p] = "vote_idea" =>
            /\ comment' = comment
            /\ \A o \in DOMAIN idea :
                /\ idea'[o].comments_count = idea[o].comments_count
                /\ ~Names(p, o) => idea'[o].votes_count = idea[o].votes_count
        /\ handler[p] = "add_comment" =>
            /\ vote' = vote
            /\ \A o \in DOMAIN idea :
                /\ idea'[o].votes_count = idea[o].votes_count
                /\ ~Names(p, o) => idea'[o].comments_count = idea[o].comments_count]_vars

\* a vote for one idea and a comment on another have both been applied
C17_Witness ==
    \E o, n \in DOMAIN idea :
        /\ o # n
        /\ idea[o].votes_count = 1 /\ idea[o].comments_count = 0
        /\ idea[n].votes_count = 0 /\ idea[n].comments_count = 1
        /\ Len(vote) = 1 /\ Len(comment) = 1
        /\ \E p \in VoteReqs : status[p] = "ok"
        /\ \E p \in CommentReqs : status[p] = "created"

\* the step of p adds 1 to the votes_count of the idea p names, and no more
PlusOneVote(p) ==
    /\ ~InvalidId(idea_id[p])
    /\ ObjectId(idea_id[p]) \in DOMAIN idea
    /\ idea' = [idea EXCEPT ![ObjectId(idea_id[p])].votes_count = @ + 1]
\* the step of p adds the Vote record of p to the collection, and no more
OneNewVote(p) == vote' = Append(vote, Vote(idea_id[p], ip[p]))

\* C18: a vote request returns ok if and only if it inserted exactly one
\* Vote record (its idea, its ip) and applied exactly one +1 to the
\* votes_count of its idea; a request that returns already_voted, 403 or 404
\* performs no write.
C18_OkIffWrote ==
    [][\A p \in VoteReqs : StepOf(p) =>
        \* the only writes of a vote request: its record, then its +1
        /\ vote' # vote => (pc[p] = "insert_vote" /\ OneNewVote(p))
        /\ idea' # idea => (pc[p] = "inc_votes" /\ PlusOneVote(p))
        /\ comment' = comment
        \* the +1 is applied after the record was inserted, by the step that
        \* returns ok, and ok is returned by no other step
        /\ pc'[p] = "inc_votes" <=> (pc[p] = "insert_vote" /\ OneNewVote(p))
        /\ (pc'[p] = "done" /\ status'[p] = "ok")
            <=> (pc[p] = "inc_votes" /\ PlusOneVote(p))
        \* the other responses come before any write
        /\ (pc'[p] = "done" /\ status'[p] \in {"already_voted", "403", "404"})
            => (pc[p] \in {"find_idea", "find_vote"}
                /\ <<idea, vote, comment>>' = <<idea, vote, comment>>)]_vars

\* one ip got ok, then already_voted for the same idea and 403 for another,
\* with one record and one increment in all
C18_Witness ==
    /\ \E p, q, r \in VoteReqs :
        /\ status[p] = "ok" /\ status[q] = "already_voted" /\ status[r] = "403"
        /\ ip[p] = ip[q] /\ ip[q] = ip[r]
    /\ Len(vote) = 1
    /\ \E o \in DOMAIN idea : idea[o].votes_count = 1

====
